---- MODULE Spec2Model ----
(***************************************************************************)
(* A model of the search engine of thanadolps/chess_game                   *)
(* (src/src/chess_minmax.rs): negamax with alpha-beta pruning over a       *)
(* 16-bit score domain, called through negamax_prelude.                    *)
(*                                                                         *)
(* The chess rules library (Board, MoveGen, checkers) and the piece-square *)
(* tables are external to the engine.  They are modelled as a bounded game *)
(* graph: NumPos positions, each with an ordered list of legal moves, an   *)
(* in-check flag and a static White-perspective worth.  Every move leads   *)
(* to a position of higher index, so every game tree is bounded.           *)
(***************************************************************************)
EXTENDS Integers, Sequences, FiniteSets, TLC

\* ------------------------------------------------------------------ bounds
NumPos == 4          \* positions of the game graph: 0 .. NumPos-1
MaxDepth == 2        \* small search depths 0 .. MaxDepth are all tried
EvalMax == 19999     \* largest magnitude of the static evaluation

\* ------------------------------------------------------- program constants
I16_MAX == 32767
I16_MIN == -32768
U8_MAX == 255
CHECKMATE_SCORE == 20000
CHECKMATE_DEPTH_SCORE == 500
DEPTH_SCORE_LIMIT == 8000

\* the largest depth with depth * CHECKMATE_DEPTH_SCORE <= 8000
MaxSupportedDepth == DEPTH_SCORE_LIMIT \div CHECKMATE_DEPTH_SCORE
\* the smallest remaining depth whose checkmate score leaves the i16 range
FirstOverflowDepth == ((I16_MAX - CHECKMATE_SCORE) \div CHECKMATE_DEPTH_SCORE) + 1

\* ------------------------------------------------------ machine arithmetic
Wrap16(x) == ((x + 32768) % 65536) - 32768
Ovf16(x) == x > I16_MAX \/ x < I16_MIN
WrapU8(x) == x % 256
OvfU8(x) == x > U8_MAX \/ x < 0
Max(x, y) == IF x >= y THEN x ELSE y

\* --------------------------------------------------------------- positions
Pos == 0 .. (NumPos - 1)
Range(s) == {s[i] : i \in 1 .. Len(s)}

\* a move from p leads to one of the next positions, so every line of play
\* ends; a position has at most two legal moves, in either order
Targets(p) == {q \in Pos : q > p /\ q <= p + 3}
MoveLists(p) ==
    {<<>>} \cup {<<q>> : q \in Targets(p)}
           \cup {<<pr[1], pr[2]>> :
                    pr \in {x \in Targets(p) \X Targets(p) : x[1] # x[2]}}

VARIABLES
    legal,       \* legal[p+1]: targets of the legal moves of p, in MoveGen order
    in_check,    \* in_check[p+1]: the side to move at p is in check
    worth,       \* worth[p+1]: White-perspective static worth of p (colours not flipped)
    root,        \* the board handed to negamax_prelude
    depth,       \* the depth handed to negamax_prelude (u8)
    cache,       \* the transposition cache handed to negamax_prelude
    rng,         \* the random source handed to negamax_prelude: "zero" or "random"
    pc,          \* "running", "returned", "panicked"
    pframe,      \* locals of negamax_prelude
    stack,       \* frames of the nested negamax calls, innermost last
    ret,         \* <<>>, or <<[val, board, depth]>>: the value a negamax call just
                 \* returned, with the board and depth of that call
    result,      \* <<>> for None, <<[mov, score]>> for Some((mov, score))
    noise_zero,  \* every tiny_noise drawn during this call was 0
    pruned,      \* some loop of this call was left by break with children unvisited
    call,        \* 1 for the first call, 2 for the second
    prev,        \* <<>>, or <<[root, result]>> of the first call
    base_game,   \* ChessGraphic.base_game: the game the session started from
    chess_game,  \* ChessGraphic.chess_game: [start, actions], the game being played
    selecting,   \* ChessGraphic.selecting: <<>> for None, <<square>> for Some(square)
    sdepth,      \* ChessGraphic.depth (u8)
    enable_ai,   \* ChessGraphic.enable_ai
    repetition,  \* the repetition set handed to the search
    handler,     \* "direct" for a direct call of the search; in a session "idle",
                 \* or the handler waiting for the search: "ai_play"
    ai_msg       \* what ai_play printed during the last event: "" (nothing),
                 \* "played", "ended" (AI: Game Ended), "disabled" (AI not enable)

\* the state of the session that owns the search
session == <<base_game, chess_game, selecting, sdepth, enable_ai, repetition,
             handler, ai_msg>>

vars == <<legal, in_check, worth, root, depth, cache, rng, pc, pframe, stack, ret,
          result, noise_zero, pruned, call, prev, base_game, chess_game, selecting,
          sdepth, enable_ai, repetition, handler, ai_msg>>

\* ------------------------------------------------------------ chess library
\* a board: the placement sq, the side to move, and whether the colours of
\* the placement are mirrored
Board(p, w, f) == [sq |-> p, white |-> w, flip |-> f]
Boards == {Board(p, w, f) : p \in Pos, w \in BOOLEAN, f \in BOOLEAN}

\* Board::side_to_move
SideToMove(board) == IF board.white THEN "White" ELSE "Black"

\* MoveGen::new_legal, in enumeration order
LegalMoves(board) ==
    [i \in 1 .. Len(legal[board.sq + 1]) |->
        [src |-> board.sq, dst |-> legal[board.sq + 1][i]]]

\* Board::make_move_new
MakeMoveNew(board, mov) == [board EXCEPT !.sq = mov.dst, !.white = ~@]

\* *board.checkers() != EMPTY
InCheck(board) == in_check[board.sq + 1]

\* Board::status
Status(board) ==
    IF Len(legal[board.sq + 1]) > 0 THEN "Ongoing"
    ELSE IF InCheck(board) THEN "Checkmate" ELSE "Stalemate"

\* the position with the colours mirrored and the side to move flipped
Mirror(board) == [board EXCEPT !.white = ~@, !.flip = ~@]

\* BoardHash::new
BoardHash(board) == board

\* a faulty variant: every move counts as legal
LegalAlways(board, mov) == TRUE

\* Board::legal
Legal(board, mov) == mov \in Range(LegalMoves(board))

\* a game: the position it started from and the actions made since; the
\* session makes no other action than Action::MakeMove
Game(board) == [start |-> board, actions |-> <<>>]

\* Game::new: the standard starting position, White to move
GameNew == Game(Board(0, TRUE, FALSE))

\* the position after the first n moves of acts, played from board
RECURSIVE Replay(_, _, _)
Replay(board, acts, n) ==
    IF n = 0 THEN board
    ELSE MakeMoveNew(Replay(board, acts, n - 1), acts[n])

\* Game::current_position
CurrentPosition(game) == Replay(game.start, game.actions, Len(game.actions))

\* Game::make_move: refused when the game has a result or the move is illegal
GameMakeMove(game, mov) ==
    IF Status(CurrentPosition(game)) # "Ongoing" THEN [game |-> game, ok |-> FALSE]
    ELSE IF Legal(CurrentPosition(game), mov)
         THEN [game |-> [game EXCEPT !.actions = Append(@, mov)], ok |-> TRUE]
         ELSE [game |-> game, ok |-> FALSE]

\* ------------------------------------------------------------- evaluation
\* evaluation_pieces_worth_plus: White's table sums minus Black's
evaluation_pieces_worth_plus(board) ==
    IF board.flip THEN 0 - worth[board.sq + 1] ELSE worth[board.sq + 1]

\* a faulty variant: gen_range(-2, 3)
NoiseWide == IF rng = "zero" THEN {0} ELSE {-2, -1, 0, 1, 2}

\* rng.gen_range(-1, 2); a source fixed to zero always gives 0
Noise == IF rng = "zero" THEN {0} ELSE {-1, 0, 1}

\* evaluation_fn, as the exact integer before the i16 store
evaluation_fn(board, tiny_noise) ==
    evaluation_pieces_worth_plus(board) + tiny_noise

\* a faulty variant: the side sign is always White's
ColorIndexWhite(board) == 1

\* color_index of negamax: +1 with White to move, -1 with Black
color_index(board) == IF SideToMove(board) = "White" THEN 1 ELSE -1

\* a faulty variant: the leaf returns the White-perspective evaluation unsigned
LeafValueUnsigned(board, tiny_noise) ==
    LET ev == evaluation_fn(board, tiny_noise)
    IN  [val |-> Wrap16(ev), ovf |-> Ovf16(ev)]

\* the depth == 0 return: color_index as i16 * evaluation_fn(board, rng)
LeafValue(board, tiny_noise) ==
    LET ev  == evaluation_fn(board, tiny_noise)
        res == color_index(board) * Wrap16(ev)
    IN  [val |-> Wrap16(res), ovf |-> Ovf16(ev) \/ Ovf16(res)]

\* a faulty variant: the test of checkers() is inverted
TerminalStatusInverted(board) == IF InCheck(board) THEN "Stalemate" ELSE "Checkmate"

\* the status negamax gives a node without legal moves
TerminalStatus(board) == IF ~InCheck(board) THEN "Stalemate" ELSE "Checkmate"

\* a faulty variant: the checkmate score is not multiplied by color_index
StatsEvalNoColor(stats, ci, d) ==
    IF stats = "Stalemate" THEN [val |-> 0, ovf |-> FALSE]
    ELSE LET prod == CHECKMATE_DEPTH_SCORE * d
             sum  == CHECKMATE_SCORE + Wrap16(prod)
             neg  == 0 - Wrap16(sum)
         IN  [val |-> Wrap16(neg),
              ovf |-> Ovf16(prod) \/ Ovf16(sum) \/ Ovf16(neg)]

\* a faulty variant: the checkmate score has no depth bonus
StatsEvalNoDepth(stats, ci, d) ==
    IF stats = "Stalemate" THEN [val |-> 0, ovf |-> FALSE]
    ELSE [val |-> ci * (0 - CHECKMATE_SCORE), ovf |-> FALSE]

\* stats_eval_fn: [val |-> the i16 result, ovf |-> some operation overflowed]
stats_eval_fn(stats, ci, d) ==
    IF stats = "Stalemate" THEN [val |-> 0, ovf |-> FALSE]
    ELSE LET prod == CHECKMATE_DEPTH_SCORE * d
             sum  == CHECKMATE_SCORE + Wrap16(prod)
             neg  == 0 - Wrap16(sum)
             res  == ci * Wrap16(neg)
         IN  [val |-> Wrap16(res),
              ovf |-> Ovf16(prod) \/ Ovf16(sum) \/ Ovf16(neg) \/ Ovf16(res)]

\* ------------------------------------------------------ transposition cache
\* a faulty variant: the cache check is active; an Exact entry of sufficient depth
\* is returned
CacheProbeEnabled(c, board, d) ==
    LET hits == {e \in c : e.key = BoardHash(board) /\ e.depth >= d /\ e.kind = "Exact"}
    IN  IF hits = {} THEN <<>> ELSE <<(CHOOSE e \in hits : TRUE).val>>

\* the cache check of negamax is commented out: no entry is ever used
CacheProbe(c, board, d) == <<>>

\* ------------------------------------------------------------------ the loop
\* a faulty variant: the bounds are negated but not swapped
ChildWindowUnswapped(a, b) == [a |-> 0 - a, b |-> 0 - b]

\* the window handed to a child: negamax(&child, depth - 1, -b, -a, ..)
ChildWindow(a, b) == [a |-> 0 - b, b |-> 0 - a]

\* the root keeps its incumbent unless the candidate is strictly greater
Better(node_eval, value) == node_eval > value

\* if a >= b { break; }
Cutoff(a, b) == a >= b

\* ------------------------------------------------------------------ frames
\* a faulty variant: value starts from i16::MIN
FrameFromMin(board, d, a, b) ==
    [board |-> board, depth |-> d, a |-> a, b |-> b,
     value |-> I16_MIN, i |-> 1, broke |-> FALSE]

Frame(board, d, a, b) ==
    [board |-> board, depth |-> d, a |-> a, b |-> b,
     value |-> 0 - I16_MAX, i |-> 1, broke |-> FALSE]

\* a faulty variant: a and value start from i16::MIN
PreludeFrameFromMin ==
    [a |-> I16_MIN, b |-> I16_MAX, value |-> I16_MIN,
     best_mov |-> <<>>, i |-> 1, broke |-> FALSE]

\* the locals of negamax_prelude: a, b, value, best_mov
PreludeFrame ==
    [a |-> 0 - I16_MAX, b |-> I16_MAX, value |-> 0 - I16_MAX,
     best_mov |-> <<>>, i |-> 1, broke |-> FALSE]

Top == stack[Len(stack)]
Pop == SubSeq(stack, 1, Len(stack) - 1)

\* an overflowing operation or a failing debug assertion panics in a debug
\* build; a release build goes on with the wrapped value
Panic ==
    /\ pc' = "panicked"
    /\ UNCHANGED <<legal, in_check, worth, root, depth, cache, rng, pframe, stack,
                   ret, result, noise_zero, pruned, call, prev>>

Outcome(fault, normal) == normal \/ (fault /\ Panic)

\* ------------------------------------------------------------------ inputs
WorthValues == {0 - EvalMax, 1}

\* the small depths, the largest supported depth, and the smallest depth at
\* which a checkmate one ply below the root overflows
DepthInputs ==
    (0 .. MaxDepth) \cup {MaxSupportedDepth, FirstOverflowDepth + 1}

RECURSIVE Shapes(_)
Shapes(p) ==
    IF p = NumPos THEN {<<>>}
    ELSE {<<m>> \o rest : m \in MoveLists(p), rest \in Shapes(p + 1)}

\* the positions some line of play from position 0 reaches
RECURSIVE Reach(_, _, _)
Reach(s, p, acc) ==
    IF p = NumPos THEN acc
    ELSE Reach(s, p + 1, IF p \in acc THEN acc \cup Range(s[p + 1]) ELSE acc)

\* a position that no line reaches has no moves, no check and worth 0; so has
\* the root's worth, which no search reads
RECURSIVE Worths(_, _)
Worths(R, p) ==
    IF p = NumPos THEN {<<>>}
    ELSE {<<v>> \o rest :
            v \in (IF p \in R /\ p # 0 THEN WorthValues ELSE {0}),
            rest \in Worths(R, p + 1)}

RECURSIVE Checks(_, _, _)
Checks(s, R, p) ==
    IF p = NumPos THEN {<<>>}
    ELSE {<<v>> \o rest :
            v \in (IF p \in R /\ s[p + 1] = <<>> THEN BOOLEAN ELSE {FALSE}),
            rest \in Checks(s, R, p + 1)}

Games ==
    {s \in Shapes(0) : \A p \in Pos \ Reach(s, 0, {0}) : s[p + 1] = <<>>}

\* LruCache::with_hasher / LruCache::new: a new cache is empty
EmptyCache == {}

\* the call negamax_prelude(&root, depth, rng, cache), its locals initialised
Entry(kind) ==
    /\ legal \in Games
    /\ worth \in Worths(Reach(legal, 0, {0}), 0)
    /\ in_check \in Checks(legal, Reach(legal, 0, {0}), 0)
    /\ root = Board(0, TRUE, FALSE)
    /\ depth \in DepthInputs
    /\ cache = EmptyCache
    /\ rng = kind
    /\ pc = "running"
    /\ pframe = PreludeFrame
    /\ stack = <<>>
    /\ ret = <<>>
    /\ result = <<>>
    /\ noise_zero = TRUE
    /\ pruned = FALSE
    /\ call = 1
    /\ prev = <<>>
    /\ base_game = Game(root)
    /\ chess_game = Game(root)
    /\ selecting = <<>>
    /\ sdepth = depth
    /\ enable_ai = TRUE
    /\ repetition = {}
    /\ handler = "direct"
    /\ ai_msg = ""

Init == Entry("random")

\* ------------------------------------------------------- negamax_prelude
\* the loop head: the next (mov, child), and the call negamax(&child, depth - 1, -b, -a, ..)
PreludeCallChild ==
    /\ pc = "running" /\ stack = <<>> /\ ret = <<>>
    /\ UNCHANGED session
    /\ ~pframe.broke
    /\ pframe.i <= Len(LegalMoves(root))
    /\ LET mov   == LegalMoves(root)[pframe.i]
           child == MakeMoveNew(root, mov)
           d1    == depth - 1
           w     == ChildWindow(pframe.a, pframe.b)
       IN  Outcome(OvfU8(d1) \/ Ovf16(w.a) \/ Ovf16(w.b),
               /\ stack' = <<Frame(child, WrapU8(d1), Wrap16(w.a), Wrap16(w.b))>>
               /\ UNCHANGED <<legal, in_check, worth, root, depth, cache, rng, pc,
                              pframe, ret, result, noise_zero, pruned, call, prev>>)

\* the loop body after the call: node_eval, value, best_mov, a, break
PreludeAfterChild ==
    /\ pc = "running" /\ stack = <<>> /\ ret # <<>>
    /\ UNCHANGED session
    /\ LET mov       == LegalMoves(root)[pframe.i]
           neg       == 0 - ret[1].val
           node_eval == Wrap16(neg)
           better    == Better(node_eval, pframe.value)
           value     == IF better THEN node_eval ELSE pframe.value
           a         == Max(pframe.a, value)
       IN  Outcome(Ovf16(neg),
               /\ pframe' = [pframe EXCEPT
                                !.value = value,
                                !.best_mov = IF better THEN <<mov>> ELSE @,
                                !.a = a,
                                !.broke = Cutoff(a, pframe.b),
                                !.i = @ + 1]
               /\ ret' = <<>>
               /\ pruned' = (pruned \/ (Cutoff(a, pframe.b)
                                          /\ pframe.i < Len(LegalMoves(root))))
               /\ UNCHANGED <<legal, in_check, worth, root, depth, cache, rng, pc,
                              stack, result, noise_zero, call, prev>>)

\* best_mov.map(|mov| (mov, value))
PreludeReturn ==
    /\ pc = "running" /\ stack = <<>> /\ ret = <<>>
    /\ UNCHANGED session
    /\ pframe.broke \/ pframe.i > Len(LegalMoves(root))
    /\ result' = IF pframe.best_mov = <<>> THEN <<>>
                 ELSE <<[mov |-> pframe.best_mov[1], score |-> pframe.value]>>
    /\ pc' = "returned"
    /\ UNCHANGED <<legal, in_check, worth, root, depth, cache, rng, pframe, stack,
                   ret, noise_zero, pruned, call, prev>>

\* ----------------------------------------------------------------- negamax
\* the value a usable cache entry gives the node on entry, <<>> without one
EntryHit(f) ==
    IF f.i = 1 /\ ~f.broke THEN CacheProbe(cache, f.board, f.depth) ELSE <<>>

Returned(f, v) == <<[val |-> v, board |-> f.board, depth |-> f.depth]>>

\* depth == 0: return color_index * evaluation_fn(board, rng)
NegamaxLeaf ==
    /\ pc = "running" /\ stack # <<>> /\ ret = <<>>
    /\ UNCHANGED session
    /\ Top.depth = 0
    /\ \E tiny_noise \in Noise :
         LET leaf == LeafValue(Top.board, tiny_noise)
         IN  Outcome(leaf.ovf,
                 /\ ret' = Returned(Top, leaf.val)
                 /\ stack' = Pop
                 /\ noise_zero' = (noise_zero /\ tiny_noise = 0)
                 /\ UNCHANGED <<legal, in_check, worth, root, depth, cache, rng, pc,
                                pframe, result, pruned, call, prev>>)

\* the loop head: the next child, and the call negamax(&child, depth - 1, -b, -a, ..)
NegamaxCallChild ==
    /\ pc = "running" /\ stack # <<>> /\ ret = <<>>
    /\ UNCHANGED session
    /\ Top.depth > 0
    /\ EntryHit(Top) = <<>>
    /\ ~Top.broke
    /\ Top.i <= Len(LegalMoves(Top.board))
    /\ LET mov   == LegalMoves(Top.board)[Top.i]
           child == MakeMoveNew(Top.board, mov)
           d1    == Top.depth - 1
           w     == ChildWindow(Top.a, Top.b)
       IN  Outcome(OvfU8(d1) \/ Ovf16(w.a) \/ Ovf16(w.b),
               /\ stack' = Append(stack, Frame(child, WrapU8(d1), Wrap16(w.a), Wrap16(w.b)))
               /\ UNCHANGED <<legal, in_check, worth, root, depth, cache, rng, pc,
                              pframe, ret, result, noise_zero, pruned, call, prev>>)

\* debug_assert!(node_eval > -i16::MAX)
NodeEvalAssertion(node_eval) == node_eval > 0 - I16_MAX

\* the loop body after the call: node_eval, the debug assertion, value, a, break
NegamaxAfterChild ==
    /\ pc = "running" /\ stack # <<>> /\ ret # <<>>
    /\ UNCHANGED session
    /\ LET neg       == 0 - ret[1].val
           node_eval == Wrap16(neg)
           value     == Max(Top.value, node_eval)
           a         == Max(Top.a, value)
       IN  Outcome(Ovf16(neg) \/ ~NodeEvalAssertion(node_eval),
               /\ stack' = [stack EXCEPT ![Len(stack)] =
                              [@ EXCEPT !.value = value,
                                        !.a = a,
                                        !.broke = Cutoff(a, Top.b),
                                        !.i = @ + 1]]
               /\ ret' = <<>>
               /\ pruned' = (pruned \/ (Cutoff(a, Top.b)
                                          /\ Top.i < Len(LegalMoves(Top.board))))
               /\ UNCHANGED <<legal, in_check, worth, root, depth, cache, rng, pc,
                              pframe, result, noise_zero, call, prev>>)

\* debug_assert_eq!(value == -i16::MAX, board.status() != BoardStatus::Ongoing)
NoMoveAssertion(f) ==
    (f.value = 0 - I16_MAX) = (Status(f.board) # "Ongoing")

\* terminating condition 2: color_index as i16 * stats_eval_fn(status, color_index, depth)
TerminalValue(board, d) ==
    LET ci   == color_index(board)
        term == stats_eval_fn(TerminalStatus(board), ci, d)
        res  == ci * term.val
    IN  [val |-> Wrap16(res), ovf |-> term.ovf \/ Ovf16(res)]

\* after the loop: the debug assertion, the no-move case, the return
NegamaxReturn ==
    /\ pc = "running" /\ stack # <<>> /\ ret = <<>>
    /\ UNCHANGED session
    /\ Top.depth > 0
    /\ \/ EntryHit(Top) # <<>>
       \/ Top.broke
       \/ Top.i > Len(LegalMoves(Top.board))
    /\ LET hit    == EntryHit(Top)
           nomove == Top.value = 0 - I16_MAX
           term   == TerminalValue(Top.board, Top.depth)
       IN  IF hit # <<>>
           THEN /\ ret' = Returned(Top, hit[1])
                /\ stack' = Pop
                /\ UNCHANGED <<legal, in_check, worth, root, depth, cache, rng, pc,
                               pframe, result, noise_zero, pruned, call, prev>>
           ELSE Outcome(~NoMoveAssertion(Top) \/ (nomove /\ term.ovf),
                    /\ ret' = Returned(Top, IF nomove THEN term.val ELSE Top.value)
                    /\ stack' = Pop
                    /\ UNCHANGED <<legal, in_check, worth, root, depth, cache, rng, pc,
                                   pframe, result, noise_zero, pruned, call, prev>>)

\* ------------------------------------------------------------ the caller
\* caches a later call can be handed: a new one, or one holding an entry for
\* every board, left by earlier searches with the score StaleScore
StaleScore == 7
CacheInputs ==
    {EmptyCache,
     {[key |-> BoardHash(bd), kind |-> "Exact", val |-> StaleScore, depth |-> U8_MAX] :
        bd \in Boards}}

\* the caller searches again: the same position or its mirror image, the
\* same depth, any cache
NextCall ==
    /\ pc = "returned" /\ call = 1
    /\ UNCHANGED session
    /\ prev' = <<[root |-> root, result |-> result]>>
    /\ call' = 2
    /\ \/ root' = root /\ cache' \in CacheInputs \ {EmptyCache}
       \/ root' = Mirror(root) /\ cache' = EmptyCache
    /\ pc' = "running"
    /\ pframe' = PreludeFrame
    /\ result' = <<>>
    /\ noise_zero' = TRUE
    /\ pruned' = FALSE
    /\ UNCHANGED <<legal, in_check, worth, depth, rng, stack, ret>>

\* one call of negamax_prelude, with a random source
Next ==
    \/ PreludeCallChild
    \/ PreludeAfterChild
    \/ PreludeReturn
    \/ NegamaxLeaf
    \/ NegamaxCallChild
    \/ NegamaxAfterChild
    \/ NegamaxReturn

Spec == Init /\ [][Next]_vars

\* two calls of negamax_prelude in a row, with the noise fixed to zero
InitZero == Entry("zero")

NextTwice ==
    \/ PreludeCallChild
    \/ PreludeAfterChild
    \/ PreludeReturn
    \/ NegamaxLeaf
    \/ NegamaxCallChild
    \/ NegamaxAfterChild
    \/ NegamaxReturn
    \/ NextCall

SpecTwice == InitZero /\ [][NextTwice]_vars

\* ================================================================== claims
RootMoves == LegalMoves(root)

\* C1: for every depth of the u8 signature, depth 0 included, negamax_prelude
\* returns None iff the root has no legal move; with a legal move it returns
\* Some((m, score)) with m a legal move of the root, and the only legal move
\* when there is exactly one.
C1_NoneIffNoLegalMove ==
    /\ Len(RootMoves) > 0 => pc # "panicked"
    /\ pc = "returned" =>
         /\ (result = <<>>) <=> (Len(RootMoves) = 0)
         /\ result # <<>> => result[1].mov \in Range(RootMoves)
         /\ Len(RootMoves) = 1 => result # <<>> /\ result[1].mov = RootMoves[1]

\* the unpruned negamax of the same tree: every child is searched and the
\* value is the maximum of the negated child values
RECURSIVE FullNegamax(_, _)
FullNegamax(board, d) ==
    IF d = 0 THEN LeafValue(board, 0).val
    ELSE IF Len(LegalMoves(board)) = 0 THEN TerminalValue(board, d).val
    ELSE LET moves == LegalMoves(board)
             vals  == {Wrap16(0 - FullNegamax(MakeMoveNew(board, moves[i]), d - 1)) :
                         i \in 1 .. Len(moves)}
         IN  CHOOSE v \in vals : \A u \in vals : u <= v

\* the negated full value of the root move number i
FullRootScore(board, d, i) ==
    Wrap16(0 - FullNegamax(MakeMoveNew(board, LegalMoves(board)[i]), d - 1))

\* the first root move, in enumeration order, that attains the maximum
FullBest(board, d) ==
    LET n    == Len(LegalMoves(board))
        best == CHOOSE i \in 1 .. n :
                  /\ \A j \in 1 .. n : FullRootScore(board, d, j) <= FullRootScore(board, d, i)
                  /\ \A j \in 1 .. (i - 1) : FullRootScore(board, d, j) < FullRootScore(board, d, i)
    IN  <<[mov |-> LegalMoves(board)[best], score |-> FullRootScore(board, d, best)]>>

\* C2: with the noise fixed to zero, for every game tree and every depth >= 1
\* the (move, score) negamax_prelude returns is the result of the unpruned
\* full-window negamax: the maximum over the root moves of the negated child
\* value, with the first move in enumeration order that attains it.
C2_PruningIsSafe ==
    (pc = "returned" /\ depth >= 1 /\ Len(RootMoves) > 0)
        => result = FullBest(root, depth)

\* a search that pruned, and whose second root move ties with the first
C2_Witness ==
    /\ pc = "returned" /\ depth >= 1 /\ pruned
    /\ Len(RootMoves) = 2
    /\ FullRootScore(root, depth, 1) = FullRootScore(root, depth, 2)
    /\ result = FullBest(root, depth)
    /\ result[1].mov = RootMoves[1]

\* ------------------------------------------------------------------ C3
InScoreRange(x) == 0 - I16_MAX <= x /\ x <= I16_MAX

\* C3: for every root depth 1 .. 16 and a static evaluation below 20000 in
\* magnitude, no 16-bit operation overflows, and every value of the search
\* (the windows, the running values, the returned values, the final score)
\* lies in [-32767, 32767].
C3_ScoreBound ==
    depth \in 1 .. MaxSupportedDepth =>
        /\ pc # "panicked"
        /\ InScoreRange(pframe.a) /\ InScoreRange(pframe.b) /\ InScoreRange(pframe.value)
        /\ \A k \in 1 .. Len(stack) :
             InScoreRange(stack[k].a) /\ InScoreRange(stack[k].b)
                                      /\ InScoreRange(stack[k].value)
        /\ ret # <<>> => InScoreRange(ret[1].val) /\ InScoreRange(0 - ret[1].val)
        /\ result # <<>> => InScoreRange(result[1].score)

\* a search of the largest supported depth that returns the largest mate score
C3_Witness ==
    /\ pc = "returned" /\ depth = MaxSupportedDepth
    /\ result # <<>>
    /\ result[1].score = CHECKMATE_SCORE + CHECKMATE_DEPTH_SCORE * (MaxSupportedDepth - 1)

\* ------------------------------------------------------------------ C4
MateValue(d) == 0 - (CHECKMATE_SCORE + CHECKMATE_DEPTH_SCORE * d)

\* C4 as stated: a call of negamax with remaining depth d >= 1 on a
\* checkmated position returns exactly -(20000 + 500 * d), whichever side is
\* mated.
C4_MateScoreAnyDepth ==
    (ret # <<>> /\ ret[1].depth >= 1 /\ Status(ret[1].board) = "Checkmate")
        => ret[1].val = MateValue(ret[1].depth)

\* C4 as amended: a call of negamax with remaining depth 1 <= d <= 25 (the
\* depths at which 20000 + 500 * d fits in 16 bits) on a checkmated position
\* returns exactly -(20000 + 500 * d), whichever side is mated.
C4_MateScore ==
    (ret # <<>> /\ ret[1].depth >= 1 /\ ret[1].depth < FirstOverflowDepth
                /\ Status(ret[1].board) = "Checkmate")
        => ret[1].val = MateValue(ret[1].depth)

\* Black is mated at a remaining depth >= 1 and the call has returned
C4_Witness ==
    /\ ret # <<>> /\ ret[1].depth >= 1 /\ ret[1].depth < FirstOverflowDepth
    /\ Status(ret[1].board) = "Checkmate"
    /\ SideToMove(ret[1].board) = "Black"
    /\ ret[1].val = MateValue(ret[1].depth)

\* ------------------------------------------------------------------ C5
\* C5: every node without legal moves whose side to move is not in check
\* yields exactly 0 to its parent, at every remaining depth, 0 included.
C5_StalemateScoresZero ==
    (ret # <<>> /\ Status(ret[1].board) = "Stalemate") => ret[1].val = 0

\* ------------------------------------------------------------------ C6
SetMin(S) == CHOOSE x \in S : \A y \in S : x <= y
SetMax(S) == CHOOSE x \in S : \A y \in S : y <= x

\* the plies to a forced checkmate with best play: even when the side to move
\* is mated in that many plies, odd when it mates, -1 when no mate is forced
RECURSIVE MateDist(_)
MateDist(board) ==
    LET moves == LegalMoves(board)
    IN  IF Len(moves) = 0 THEN (IF InCheck(board) THEN 0 ELSE -1)
        ELSE LET ds   == {MateDist(MakeMoveNew(board, moves[i])) : i \in 1 .. Len(moves)}
                 wins == {x \in ds : x >= 0 /\ x % 2 = 0}
             IN  IF wins # {} THEN 1 + SetMin(wins)
                 ELSE IF \A x \in ds : x >= 0 /\ x % 2 = 1 THEN 1 + SetMax(ds)
                 ELSE -1

\* the plies of the forced mate the root move number i starts, -1 without one
MatePlies(i) ==
    LET x == MateDist(MakeMoveNew(root, RootMoves[i]))
    IN  IF x >= 0 /\ x % 2 = 0 THEN x + 1 ELSE -1

\* the root moves whose forced mate the search sees: the mated position is
\* reached with a remaining depth >= 1
MatingMoves == {i \in 1 .. Len(RootMoves) : MatePlies(i) >= 1 /\ MatePlies(i) < depth}

\* the score the code gives the root for a mate of the opponent in k plies
MateScoreOf(k) ==
    LET ci == 0 - color_index(root)
    IN  Wrap16(0 - Wrap16(ci * stats_eval_fn("Checkmate", ci, depth - k).val))

IndexOfMove(mov) == CHOOSE i \in 1 .. Len(RootMoves) : RootMoves[i] = mov

FasterMatePreferred ==
    LET kmin == SetMin({MatePlies(i) : i \in MatingMoves})
    IN  /\ result # <<>>
        /\ MatePlies(IndexOfMove(result[1].mov)) = kmin
        /\ result[1].score = MateScoreOf(kmin)
        /\ \A i \in MatingMoves : \A j \in MatingMoves :
             MatePlies(i) < MatePlies(j) => MateScoreOf(MatePlies(i)) > MateScoreOf(MatePlies(j))

\* two root moves force a checkmate the search sees, in different numbers of plies
TwoMates ==
    \E i \in MatingMoves : \E j \in MatingMoves : MatePlies(i) < MatePlies(j)

\* C6 as stated: with noise zero, when two root moves force a checkmate
\* within the search depth, a move with the fewest plies is returned with the
\* strictly larger score, and the score of a forced mate in k plies is
\* strictly decreasing in k.
C6_FasterMateAnyDepth ==
    (pc = "returned" /\ depth >= 1 /\ TwoMates) => FasterMatePreferred

\* C6 as amended: the same for the search depths 1 .. 26, at which every
\* checkmate score 20000 + 500 * d of the search fits in 16 bits.
C6_FasterMate ==
    (pc = "returned" /\ depth >= 1 /\ depth <= FirstOverflowDepth /\ TwoMates)
        => FasterMatePreferred

\* the first root move mates in 3, the second in 1, and the second is returned
C6_Witness ==
    /\ pc = "returned" /\ depth >= 1 /\ depth <= FirstOverflowDepth
    /\ Len(RootMoves) = 2
    /\ MatingMoves = {1, 2}
    /\ MatePlies(1) = 3 /\ MatePlies(2) = 1
    /\ result # <<>> /\ result[1].mov = RootMoves[2]
    /\ result[1].score = CHECKMATE_SCORE + CHECKMATE_DEPTH_SCORE * (depth - 1)

\* ------------------------------------------------------------------ C7
\* the root moves that checkmate the opponent
MateInOne ==
    {i \in 1 .. Len(RootMoves) : Status(MakeMoveNew(root, RootMoves[i])) = "Checkmate"}

MatingMoveReturned ==
    /\ pc # "panicked"
    /\ pc = "returned" =>
         /\ result # <<>>
         /\ IndexOfMove(result[1].mov) \in MateInOne
         /\ result[1].score = CHECKMATE_SCORE + CHECKMATE_DEPTH_SCORE * (depth - 1)
         /\ result[1].score > CHECKMATE_SCORE

\* C7 as stated: when a root move checkmates the opponent, negamax_prelude
\* called with any depth >= 2 returns a mating move with the score
\* 20000 + 500 * (depth - 1), strictly greater than 20000.
C7_MateInOneAnyDepth ==
    (depth >= 2 /\ MateInOne # {}) => MatingMoveReturned

\* C7 as amended: the same for the depths 2 .. 26, at which
\* 20000 + 500 * (depth - 1) fits in 16 bits.
C7_MateInOne ==
    (depth >= 2 /\ depth <= FirstOverflowDepth /\ MateInOne # {}) => MatingMoveReturned

\* the second root move mates, the first does not, and the second is returned
C7_Witness ==
    /\ pc = "returned" /\ depth >= 2 /\ depth <= FirstOverflowDepth
    /\ MateInOne = {2}
    /\ result # <<>> /\ result[1].mov = RootMoves[2]
    /\ result[1].score = CHECKMATE_SCORE + CHECKMATE_DEPTH_SCORE * (depth - 1)

\* ------------------------------------------------------------------ C8
\* +1 with White to move at the root, -1 with Black
RootSign == IF SideToMove(root) = "White" THEN 1 ELSE -1

\* C8: with noise zero and depth 1 the score is relative to the side to move
\* at the root, White or Black: it is the maximum over the root's legal moves
\* of s * evaluate(child), evaluate being White's perspective and s the
\* root's side sign.
C8_SideRelativeScore ==
    (pc = "returned" /\ depth = 1 /\ Len(RootMoves) > 0) =>
        /\ result # <<>>
        /\ result[1].score =
             SetMax({RootSign * evaluation_pieces_worth_plus(MakeMoveNew(root, RootMoves[i])) :
                       i \in 1 .. Len(RootMoves)})

\* Black is to move at the root, and the search favours Black
C8_Witness ==
    /\ pc = "returned" /\ depth = 1 /\ Len(RootMoves) = 2
    /\ SideToMove(root) = "Black"
    /\ result # <<>> /\ result[1].score > 0
    /\ result[1].score =
         0 - evaluation_pieces_worth_plus(MakeMoveNew(root, result[1].mov))

\* ------------------------------------------------------------------ C9
\* C9: with the noise fixed to zero, two calls of negamax_prelude with the
\* same position and depth return the same move and score, whatever the
\* cache handed to each.
C9_CacheNeutral ==
    (call = 2 /\ pc = "returned" /\ root = prev[1].root) => result = prev[1].result

\* the second call, with a cache full of entries, returned a move
C9_Witness ==
    /\ call = 2 /\ pc = "returned" /\ root = prev[1].root
    /\ cache # EmptyCache
    /\ depth >= 2
    /\ result # <<>> /\ result = prev[1].result

\* ------------------------------------------------------------------ C10
\* the second call searched the mirror image of the first call's position
MirrorPair ==
    /\ call = 2 /\ pc = "returned" /\ root = Mirror(prev[1].root)
    /\ depth >= 1 /\ Len(RootMoves) > 0
    /\ result # <<>> /\ prev[1].result # <<>>

\* C10 as stated: with noise zero and an evaluator antisymmetric under
\* colour mirroring, the score for a non-terminal position at depth >= 1 is
\* the negation of the score for the mirrored position.
C10_MirrorNegatesScore ==
    MirrorPair => result[1].score = 0 - prev[1].result[1].score

\* C10 as amended: the score for the position equals the score for the
\* mirrored position (the score is relative to the side to move, which the
\* mirroring flips together with the colours).
C10_MirrorKeepsScore ==
    MirrorPair => result[1].score = prev[1].result[1].score

\* a mirrored pair of searches with a non-zero score
C10_Witness ==
    /\ MirrorPair
    /\ result[1].score # 0
    /\ result[1].score = prev[1].result[1].score

\* ============================================================== the session
\* ChessGraphic (src/src/chess_graphic.rs): the window's session, which owns
\* the game, the cache and the depth, and calls the search on an AI turn.
DEFAULT_DEPTH == 4
MaxSessionDepth == 5     \* the RIGHT key is pressed only below this depth

\* a faulty variant: clear leaves the entry of the starting position behind
CacheClearKeepsEntry(c) ==
    {[key |-> BoardHash(Board(0, TRUE, FALSE)), kind |-> "Exact",
      val |-> StaleScore, depth |-> U8_MAX]}

\* LruCache::clear
CacheClear(c) == EmptyCache

\* ChessGraphic::get_potential_repetition: the loop over the moves made; the
\* board is hashed, then the move is made on it
RECURSIVE RepetitionWalk(_, _, _, _, _)
RepetitionWalk(board, acts, i, occured, repeated) ==
    IF i > Len(acts) THEN repeated
    ELSE LET hash == BoardHash(board)
         IN  RepetitionWalk(MakeMoveNew(board, acts[i]), acts, i + 1,
                            occured \cup {hash},
                            IF hash \in occured THEN repeated \cup {hash} ELSE repeated)

get_potential_repetition(game, base) ==
    RepetitionWalk(CurrentPosition(base), game.actions, 1, {}, {})

\* ChessGraphic::make_move and make_move_msg: the game after the call
make_move(game, mov) ==
    IF Status(CurrentPosition(game)) = "Ongoing" THEN GameMakeMove(game, mov).game
    ELSE game

\* the loop of undo: the first n of acts made on game with Game::make_move
RECURSIVE ReplayGame(_, _, _)
ReplayGame(game, acts, n) ==
    IF n = 0 THEN game
    ELSE GameMakeMove(ReplayGame(game, acts, n - 1), acts[n]).game

\* a faulty variant: every action is made again, the last one included
UndoKeepsLast(game, base) ==
    IF Len(game.actions) > 0
    THEN ReplayGame(base, game.actions, Len(game.actions))
    ELSE game

\* ChessGraphic::undo: the game after the call
undo(game, base) ==
    IF Len(game.actions) > 0
    THEN ReplayGame(base, game.actions, Len(game.actions) - 1)
    ELSE game

\* no handler is running and the process has not panicked
Idle == handler = "idle" /\ pc = "idle"

\* ai_play(false) with the AI enabled, on the game g: the repetition set is
\* computed and run_ai calls negamax_prelude, whose steps follow
StartSearch(g) ==
    /\ root' = CurrentPosition(g)
    /\ depth' = sdepth
    /\ repetition' = get_potential_repetition(g, base_game)
    /\ pc' = "running"
    /\ pframe' = PreludeFrame
    /\ stack' = <<>>
    /\ ret' = <<>>
    /\ result' = <<>>
    /\ noise_zero' = TRUE
    /\ pruned' = FALSE
    /\ handler' = "ai_play"

\* nothing of the search is touched
NoSearch ==
    UNCHANGED <<root, depth, repetition, pc, pframe, stack, ret, result,
                noise_zero, pruned, handler>>

\* what no handler of the session changes
Fixed == UNCHANGED <<legal, in_check, worth, rng, call, prev>>

\* the second-best variant of the root search: the root moves are scored as
\* negamax_prelude scores them, the two highest-scoring are kept, the earlier
\* of two equal ones first; a slot without a move is <<>>
RootScore2nd(board, d, i) ==
    Wrap16(0 - FullNegamax(MakeMoveNew(board, LegalMoves(board)[i]), WrapU8(d - 1)))

BestIndex(board, d, S) ==
    CHOOSE i \in S : \A j \in S :
        \/ RootScore2nd(board, d, j) < RootScore2nd(board, d, i)
        \/ RootScore2nd(board, d, j) = RootScore2nd(board, d, i) /\ i <= j

negamax_prelude_2nd(board, d) ==
    LET all    == 1 .. Len(LegalMoves(board))
        first  == IF all = {} THEN 0 ELSE BestIndex(board, d, all)
        rest   == all \ {first}
        second == IF rest = {} THEN 0 ELSE BestIndex(board, d, rest)
        slot(i) == IF i = 0 THEN <<>>
                   ELSE <<[mov |-> LegalMoves(board)[i], score |-> RootScore2nd(board, d, i)]>>
    IN  <<slot(first), slot(second)>>

\* ---------------------------------------------------------------- handlers
\* mouse_input with the left button: the first click selects, the second
\* click makes the move when it is legal, and the AI replies when enabled
MouseInput ==
    /\ Idle
    /\ Fixed
    /\ UNCHANGED <<base_game, sdepth, enable_ai, cache>>
    /\ ai_msg' = ""
    /\ \E clicking_square \in Pos :
         IF selecting = <<>>
         THEN /\ selecting' = <<clicking_square>>
              /\ UNCHANGED chess_game
              /\ NoSearch
         ELSE LET mov == [src |-> selecting[1], dst |-> clicking_square]
                  g   == make_move(chess_game, mov)
              IN  /\ selecting' = <<>>
                  /\ IF Legal(CurrentPosition(chess_game), mov)
                     THEN /\ chess_game' = g
                          /\ IF enable_ai THEN StartSearch(g) ELSE NoSearch
                     ELSE /\ UNCHANGED chess_game
                          /\ NoSearch

\* Key::Semicolon: ai_play(false)
KeySemicolon ==
    /\ Idle
    /\ Fixed
    /\ UNCHANGED <<base_game, chess_game, selecting, sdepth, enable_ai, cache>>
    /\ IF enable_ai THEN StartSearch(chess_game) ELSE NoSearch
    /\ ai_msg' = IF enable_ai THEN "" ELSE "disabled"

\* ai_play after run_ai has returned: the move is made, or with None
\* "AI: Game Ended" is printed and no move is made; the arguments
\* and locals of the finished call are gone, and are left as at the start
AiPlayFinish ==
    /\ handler = "ai_play" /\ pc = "returned"
    /\ Fixed
    /\ chess_game' = IF result # <<>> THEN make_move(chess_game, result[1].mov)
                     ELSE chess_game
    /\ ai_msg' = IF result # <<>> THEN "played" ELSE "ended"
    /\ handler' = "idle"
    /\ pc' = "idle"
    /\ root' = CurrentPosition(GameNew)
    /\ depth' = DEFAULT_DEPTH
    /\ pframe' = PreludeFrame
    /\ result' = <<>>
    /\ noise_zero' = TRUE
    /\ pruned' = FALSE
    /\ UNCHANGED <<base_game, selecting, sdepth, enable_ai, cache, repetition,
                   stack, ret>>

\* Key::Backslash: ai_play(true), which plays the second slot of
\* negamax_prelude_2nd, or with None prints "AI: Game Ended" and makes no
\* move; the root computes depth - 1 as negamax_prelude does
KeyBackslash ==
    /\ Idle
    /\ Fixed
    /\ UNCHANGED <<base_game, selecting, sdepth, enable_ai, cache>>
    /\ IF ~enable_ai
       THEN /\ ai_msg' = "disabled"
            /\ UNCHANGED chess_game
            /\ NoSearch
       ELSE LET board == CurrentPosition(chess_game)
                second == negamax_prelude_2nd(board, sdepth)[2]
            IN  \/ /\ chess_game' = IF second # <<>> THEN make_move(chess_game, second[1].mov)
                                    ELSE chess_game
                   /\ ai_msg' = IF second # <<>> THEN "played" ELSE "ended"
                   /\ repetition' = get_potential_repetition(chess_game, base_game)
                   /\ UNCHANGED <<root, depth, pc, pframe, stack, ret, result,
                                  noise_zero, pruned, handler>>
                \/ /\ Len(LegalMoves(board)) > 0 /\ OvfU8(sdepth - 1)
                   /\ Panic
                   /\ UNCHANGED <<chess_game, repetition, handler, ai_msg>>

\* Key::Z: undo
KeyZ ==
    /\ Idle
    /\ Fixed
    /\ chess_game' = undo(chess_game, base_game)
    /\ UNCHANGED <<base_game, selecting, sdepth, enable_ai, cache>>
    /\ ai_msg' = ""
    /\ NoSearch

\* Key::Right, Plus, NumPadPlus: self.depth += 1
KeyRight ==
    /\ Idle
    /\ Fixed
    /\ sdepth < MaxSessionDepth
    /\ sdepth' = WrapU8(sdepth + 1)
    /\ UNCHANGED <<base_game, chess_game, selecting, enable_ai, cache>>
    /\ ai_msg' = ""
    /\ NoSearch

\* Key::Left, Minus, NumPadMinus: self.depth = self.depth.saturating_sub(1)
KeyLeft ==
    /\ Idle
    /\ Fixed
    /\ sdepth' = Max(sdepth - 1, 0)
    /\ UNCHANGED <<base_game, chess_game, selecting, enable_ai, cache>>
    /\ ai_msg' = ""
    /\ NoSearch

\* Key::A: the AI is switched off or on
KeyA ==
    /\ Idle
    /\ Fixed
    /\ enable_ai' = ~enable_ai
    /\ UNCHANGED <<base_game, chess_game, selecting, sdepth, cache>>
    /\ ai_msg' = ""
    /\ NoSearch

\* ChessGraphic::reset, then the game set to g (Game::new() for key R)
ResetTo(g) ==
    /\ chess_game' = g
    /\ base_game' = g
    /\ selecting' = <<>>
    /\ cache' = CacheClear(cache)

\* Key::R: reset
KeyR ==
    /\ Idle
    /\ Fixed
    /\ ResetTo(GameNew)
    /\ UNCHANGED <<sdepth, enable_ai>>
    /\ ai_msg' = ""
    /\ NoSearch

\* the lines input_fen can read: one that Game::from_str refuses (<<>>) or
\* turns into a game, of at most 70 characters or longer
FenLines ==
    {[game |-> g, long |-> l] :
        g \in {<<>>} \cup {<<Game(Board(p, w, FALSE))>> : p \in Pos, w \in BOOLEAN},
        l \in BOOLEAN}

\* input_fen past the debug assertion, reading line: Game::from_str, then
\* reset and the parsed game, or the error printed
InputFenParse(line) ==
    /\ IF line.game = <<>>
       THEN UNCHANGED <<base_game, chess_game, selecting, cache>>
       ELSE ResetTo(line.game[1])
    /\ ai_msg' = ""
    /\ NoSearch

\* Key::I: input_fen; debug_assert!(fen.len() <= 70) fails on a long line
KeyI ==
    /\ Idle
    /\ Fixed
    /\ UNCHANGED <<sdepth, enable_ai>>
    /\ \E line \in FenLines :
         \/ InputFenParse(line)
         \/ /\ line.long
            /\ Panic
            /\ UNCHANGED <<base_game, chess_game, selecting, repetition, handler,
                           ai_msg>>

\* the games of a session: every move leads one or two positions on, and
\* every position a line of play reaches has the worth 1
SessionGames ==
    {s \in Games : \A p \in Pos : \A q \in Range(s[p + 1]) : q <= p + 2}

SessionWorth(s) ==
    [i \in 1 .. NumPos |-> IF (i - 1) \in Reach(s, 0, {0}) /\ i # 1 THEN 1 ELSE 0]

\* ChessGraphic::new: from_game(Game::new()), before any event
NewSession ==
    /\ base_game = GameNew
    /\ chess_game = GameNew
    /\ selecting = <<>>
    /\ cache = EmptyCache
    /\ rng = "random"
    /\ sdepth = DEFAULT_DEPTH
    /\ enable_ai = TRUE
    /\ repetition = {}
    /\ handler = "idle"
    /\ ai_msg = ""
    /\ root = CurrentPosition(GameNew)
    /\ depth = DEFAULT_DEPTH
    /\ pc = "idle"
    /\ pframe = PreludeFrame
    /\ stack = <<>>
    /\ ret = <<>>
    /\ result = <<>>
    /\ noise_zero = TRUE
    /\ pruned = FALSE
    /\ call = 1
    /\ prev = <<>>

SessionInit ==
    /\ legal \in SessionGames
    /\ worth = SessionWorth(legal)
    /\ in_check \in Checks(legal, Reach(legal, 0, {0}), 0)
    /\ NewSession

\* the events of the window, and the steps of the search an AI turn runs
NextSession ==
    \/ MouseInput
    \/ KeySemicolon
    \/ KeyBackslash
    \/ KeyZ
    \/ KeyRight
    \/ KeyLeft
    \/ KeyA
    \/ KeyR
    \/ KeyI
    \/ AiPlayFinish
    \/ PreludeCallChild
    \/ PreludeAfterChild
    \/ PreludeReturn
    \/ NegamaxLeaf
    \/ NegamaxCallChild
    \/ NegamaxAfterChild
    \/ NegamaxReturn

SpecSession == SessionInit /\ [][NextSession]_vars

\* ------------------------------------------------- games with repetitions
\* games in which positions recur: every position has one legal move, to any
\* other position, and nobody is in check
MaxHistory == 4
RepetitionGames == {s \in [1 .. NumPos -> {<<q>> : q \in Pos}] :
                      \A p \in Pos : s[p + 1][1] # p}

RepetitionInit ==
    /\ legal \in RepetitionGames
    /\ worth = [i \in 1 .. NumPos |-> 0]
    /\ in_check = [i \in 1 .. NumPos |-> FALSE]
    /\ NewSession

\* the two clicks of a legal move, the AI switched off: make_move_msg(mov)
HistoryMove ==
    /\ Idle
    /\ Fixed
    /\ Len(chess_game.actions) < MaxHistory
    /\ \E mov \in Range(LegalMoves(CurrentPosition(chess_game))) :
         chess_game' = make_move(chess_game, mov)
    /\ UNCHANGED <<base_game, selecting, sdepth, enable_ai, cache>>
    /\ ai_msg' = ""
    /\ NoSearch

\* the repetition set ai_play computes for the game as it stands
RepetitionCall ==
    /\ Idle
    /\ Fixed
    /\ repetition' = get_potential_repetition(chess_game, base_game)
    /\ UNCHANGED <<base_game, chess_game, selecting, sdepth, enable_ai, cache,
                   root, depth, pc, pframe, stack, ret, result, noise_zero,
                   pruned, handler, ai_msg>>

NextRepetition ==
    \/ HistoryMove
    \/ RepetitionCall

SpecRepetition == RepetitionInit /\ [][NextRepetition]_vars

\* ------------------------------------------------------------------ C11
\* C11: a call of negamax_prelude on a position with legal moves at depth >= 2
\* mutates the transposition cache (it stores an entry for the positions it
\* scored), and leaves the repetition set exactly as it was before the call.
\* The first call is entered with an empty cache and an empty repetition set.
C11_CacheMutated ==
    (call = 1 /\ pc = "returned" /\ depth >= 2 /\ Len(RootMoves) > 0)
        => (cache # EmptyCache /\ repetition = {})

\* ------------------------------------------------------------------ C12
\* a step of key R, or of key I with a line that Game::from_str parses
ResetStep ==
    \/ KeyR
    \/ /\ Idle
       /\ \E line \in FenLines : line.game # <<>> /\ InputFenParse(line)

PositionAfter(i) == Replay(CurrentPosition(base_game), chess_game.actions, i)

\* the hashes that occur more than once among the positions numbered in I
RepeatedAmong(I) ==
    {h \in {BoardHash(PositionAfter(i)) : i \in I} :
        Cardinality({i \in I : BoardHash(PositionAfter(i)) = h}) > 1}

\* C13: for every move history m1..mn played from the starting position P0,
\* get_potential_repetition returns exactly the set of hashes that occur
\* more than once among the resulting positions P1..Pn, so a current
\* position Pn that repeats an earlier resulting position is in the set.
C13_RepetitionSet ==
    [][RepetitionCall => repetition' = RepeatedAmong(1 .. Len(chess_game.actions))]_vars

\* ------------------------------------------------------------------ C14
\* C14: whenever an AI turn with the AI enabled (best move or second-best
\* variant) gets no move and reports the game ended without applying a move,
\* the current position has no legal moves; if the position has at least one
\* legal move, that AI turn applies a move.
C14_NoneOnlyWhenOver ==
    ai_msg = "ended" => Len(LegalMoves(CurrentPosition(chess_game))) = 0

\* ------------------------------------------------------------------ C15
\* the innermost call of negamax has left its loop
LoopLeft ==
    /\ stack # <<>> /\ ret = <<>> /\ Top.depth > 0
    /\ Top.broke \/ Top.i > Len(LegalMoves(Top.board))

\* C15: in every search started with a depth in 1 .. 16 the two debug
\* assertions of negamax hold at every node: (1) each negated child value
\* node_eval is strictly greater than -32767; (2) after the child loop,
\* value = -32767 if and only if the node has no legal moves, also when the
\* loop was cut off by a >= b.
C15_DebugAssertions ==
    depth \in 1 .. MaxSupportedDepth =>
        /\ (stack # <<>> /\ ret # <<>>) => NodeEvalAssertion(Wrap16(0 - ret[1].val))
        /\ LoopLeft => NoMoveAssertion(Top)

\* a node with legal moves whose loop was cut off with a child unvisited
C15_Witness ==
    /\ depth \in 1 .. MaxSupportedDepth
    /\ LoopLeft
    /\ Top.broke /\ Top.i <= Len(LegalMoves(Top.board))
    /\ Top.value # 0 - I16_MAX
    /\ NoMoveAssertion(Top)

\* ------------------------------------------------------------------ C16
Abs(x) == IF x < 0 THEN 0 - x ELSE x

\* the score of the same search with every noise value equal to zero
NoiseFreeScore == FullBest(root, depth)[1].score

\* C16: each evaluation adds a value drawn from {-1, 0, 1}, and for every
\* game tree, every depth >= 1 and every choice of the noise values the
\* score negamax_prelude returns differs from the score with all noise zero
\* by at most 1, so a noise-free advantage of magnitude 2 or more keeps its
\* sign.
C16_NoiseBounded ==
    (pc = "returned" /\ depth >= 1 /\ result # <<>>) =>
        /\ Abs(result[1].score - NoiseFreeScore) <= 1
        /\ NoiseFreeScore >= 2 => result[1].score > 0
        /\ NoiseFreeScore <= -2 => result[1].score < 0

\* a search in which some noise was not zero and moved the score by 1
C16_Witness ==
    /\ pc = "returned" /\ depth >= 1 /\ result # <<>>
    /\ ~noise_zero
    /\ Abs(result[1].score - NoiseFreeScore) = 1

\* ------------------------------------------------------------------ C17
\* the history without its last move
AllButLast(h) == SubSeq(h, 1, Len(h) - 1)

\* what a step of key Z leaves
UndoEffect ==
    LET h == chess_game.actions
    IN  /\ base_game' = base_game
        /\ IF Len(h) > 0
           THEN /\ chess_game'.actions = AllButLast(h)
                /\ CurrentPosition(chess_game')
                     = Replay(CurrentPosition(base_game), h, Len(h) - 1)
           ELSE chess_game' = chess_game

\* a legal move made in the current position and then undone leaves the game
\* as it is
MoveThenUndo ==
    \A mov \in Range(LegalMoves(CurrentPosition(chess_game))) :
        undo(make_move(chess_game, mov), base_game) = chess_game

\* C17: in any reachable session state with a non-empty history m1..mn, undo
\* (key Z) leaves the history m1..m(n-1) and the position that replaying
\* m1..m(n-1) from the base game's starting position gives (so a legal move
\* followed by undo restores position and history); with an empty history
\* undo changes neither; the base game is unchanged in both cases.
C17_UndoInverse == [][KeyZ => UndoEffect]_vars /\ [](Idle => MoveThenUndo)

\* a game of two moves, entered as FEN with Black to move, whose last move
\* undo takes back
C17_Witness ==
    /\ Idle
    /\ base_game = Game(Board(0, FALSE, FALSE))
    /\ Len(chess_game.actions) = 2
    /\ undo(chess_game, base_game).actions = <<chess_game.actions[1]>>
    /\ CurrentPosition(undo(chess_game, base_game)) # CurrentPosition(chess_game)

\* ------------------------------------------------------------------ C18
\* C18: after any sequence of RIGHT/+ and LEFT/- key presses from the default
\* depth 4, the depth ai_play hands to the search is within 1 ..= 16.
C18_DepthInRange ==
    handler = "ai_play" => depth \in 1 .. MaxSupportedDepth

\* ------------------------------------------------------------------ C19
\* every move of the history is one of the legal moves of the position it
\* was made in
HistoryLegal ==
    \A i \in 1 .. Len(chess_game.actions) :
        chess_game.actions[i]
            \in Range(LegalMoves(Replay(chess_game.start, chess_game.actions, i - 1)))

\* a step that makes the history longer appends one move, in a position that
\* is neither checkmate nor stalemate
AppendOnlyWhenOngoing ==
    Len(chess_game'.actions) > Len(chess_game.actions) =>
        /\ Status(CurrentPosition(chess_game)) = "Ongoing"
        /\ AllButLast(chess_game'.actions) = chess_game.actions
        /\ chess_game'.start = chess_game.start

\* a second click clears the selection, and changes the game only by a move
\* from the selected square that is legal in the current position
SecondClickEffect ==
    (MouseInput /\ selecting # <<>>) =>
        /\ selecting' = <<>>
        /\ chess_game' # chess_game =>
              \E mov \in Range(LegalMoves(CurrentPosition(chess_game))) :
                  /\ mov.src = selecting[1]
                  /\ chess_game' = [chess_game EXCEPT !.actions = Append(@, mov)]

\* C19: only legal moves are ever played: after any sequence of mouse clicks,
\* key presses and AI turns every move of the history was a legal move of the
\* position it was applied to, no move is appended while the position is
\* checkmate or stalemate, a second click that forms an illegal move leaves
\* position and history unchanged, and every second click clears the
\* selection.
C19_OnlyLegalMoves ==
    /\ []HistoryLegal
    /\ [][AppendOnlyWhenOngoing]_vars
    /\ [][SecondClickEffect]_vars

\* a legal second click and the AI's reply have led to a finished game
C19_Witness ==
    /\ Idle
    /\ Len(chess_game.actions) = 2
    /\ ai_msg = "played"
    /\ selecting = <<>>
    /\ chess_game.actions[1].src = CurrentPosition(base_game).sq
    /\ Status(CurrentPosition(chess_game)) # "Ongoing"

====
